---- MODULE Spec2Model ----
(***************************************************************************)
(* Model of the locator store (src/src/helper.py), the element resolver    *)
(* (src/src/common_page_elements.py) and the construction of the search    *)
(* page object (src/src/search.py), run against a browser session whose    *)
(* document changes under the resolver's feet; and of the test run that    *)
(* the fixtures and hooks of src/tests/conftest.py and                     *)
(* src/tests/conftest_azure.py set up, tear down and report.               *)
(***************************************************************************)
EXTENDS Integers, Sequences, FiniteSets, TLC

VARIABLES alive, status, value, wait, last, file, pages, run

vars == <<alive, status, value, wait, last, file, pages, run>>

(***************************************************************************)
(* Bounds of the model.                                                    *)
(***************************************************************************)
\* longest value attribute the text input holds
MaxLen == 2
\* seconds between two readiness checks of a wait (library-defined interval)
PollInterval == 5
\* page objects constructed in one run
MaxPages == 2

(***************************************************************************)
(* Program constants.                                                      *)
(***************************************************************************)
\* WebDriverWait(driver, 10)
WaitSeconds == 10
\* timeout=10, the default of both wait operations
DefaultTimeout == 10

(***************************************************************************)
(* Python values that cross the resolver's boundary.  One record shape for *)
(* all of them; py is the Python type.                                     *)
(***************************************************************************)
Py(t, h, k, v, n, i, c) ==
    [py |-> t, has |-> h, type |-> k, value |-> v, node |-> n, items |-> i, chars |-> c]

PyNone == Py("None", {}, "", "", 0, <<>>, <<>>)
\* a dict with the keys in h among 'type' and 'value'
PyDict(h, k, v) ==
    Py("dict", h, IF "type" \in h THEN k ELSE "", IF "value" \in h THEN v ELSE "", 0, <<>>, <<>>)
Descriptor(k, v) == PyDict({"type", "value"}, k, v)
\* a WebElement: a borrowed handle to node n of the session's document
WebElement(n) == Py("WebElement", {}, "", "", n, <<>>, <<>>)
\* a list of WebElements
PyList(ns) == Py("list", {}, "", "", 0, ns, <<>>)
\* a str, as its sequence of characters
PyStr(cs) == Py("str", {}, "", "", 0, <<>>, cs)
\* a non-empty list given where a locator is expected
PyJunk == Py("list", {}, "", "", 0, <<1>>, <<>>)

\* True and False
PyBool(b) == Py("bool", {}, "", "", IF b THEN 1 ELSE 0, <<>>, <<>>)

\* Python truthiness: None, False, {}, "" and [] are falsy
Truthy(x) ==
    CASE x.py = "None" -> FALSE
      [] x.py = "bool" -> x.node = 1
      [] x.py = "dict" -> x.has # {}
      [] x.py = "str"  -> x.chars # <<>>
      [] x.py = "list" -> x.items # <<>>
      [] OTHER -> TRUE

IsDict(x) == x.py = "dict"

(***************************************************************************)
(* The session's document: two nodes in document order,                    *)
(*   1: <input id="sb_form_q" name="q" class="input">                      *)
(*   2: <a id="q" name="q" class="sb_form_q">input</a>                     *)
(* Each node is absent (not in the DOM), hidden (in the DOM, not           *)
(* displayed), disabled (displayed, not enabled) or ready.                 *)
(***************************************************************************)
Nodes == {1, 2}
Chars == {"a", "b"}
NodeStatus == {"absent", "hidden", "disabled", "ready"}

Doc ==
    [n \in Nodes |->
        IF n = 1
        THEN [tag |-> "input", id |-> "sb_form_q", name |-> "q", class |-> "input", text |-> ""]
        ELSE [tag |-> "a", id |-> "q", name |-> "q", class |-> "sb_form_q", text |-> "input"]]

\* selenium.webdriver.common.by.By
By == [ID |-> "id", XPATH |-> "xpath", CSS_SELECTOR |-> "css selector", NAME |-> "name",
       CLASS_NAME |-> "class name", LINK_TEXT |-> "link text",
       PARTIAL_LINK_TEXT |-> "partial link text", TAG_NAME |-> "tag name"]

\* the strings used as locator values
Values == {"sb_form_q", "q", "input", "//a"}

\* a value the strategy cannot parse: "//a" is no CSS selector
InvalidSelector(by, v) == by = By.CSS_SELECTOR /\ v = "//a"

\* node n, taken as present, is selected by (by, v)
Selects(by, v, n) ==
    CASE by = By.ID -> Doc[n].id = v
      [] by = By.NAME -> Doc[n].name = v
      [] by = By.CLASS_NAME -> Doc[n].class = v
      [] by = By.TAG_NAME -> Doc[n].tag = v
      [] by = By.CSS_SELECTOR -> Doc[n].tag = v
      [] by = By.XPATH -> v = "//a" /\ Doc[n].tag = "a"
      [] by = By.LINK_TEXT -> Doc[n].tag = "a" /\ Doc[n].text = v
      [] by = By.PARTIAL_LINK_TEXT -> Doc[n].tag = "a" /\ Doc[n].text = v
      [] OTHER -> FALSE

\* the nodes of the live document that (by, v) matches
Matches(by, v) == {n \in Nodes : status[n] # "absent" /\ Selects(by, v, n)}

Min(S) == CHOOSE x \in S : \A y \in S : x <= y

RECURSIVE InOrder(_)
InOrder(S) == IF S = {} THEN <<>> ELSE <<Min(S)>> \o InOrder(S \ {Min(S)})

(***************************************************************************)
(* What the session answers: [exc, ret].  exc = "" when the call returns.  *)
(***************************************************************************)
Returns(x) == [exc |-> "", ret |-> x]
Raises(e) == [exc |-> e, ret |-> PyNone]

\* driver.find_element(by, v)
find_element(by, v) ==
    IF ~alive THEN Raises("WebDriverException")
    ELSE IF InvalidSelector(by, v) THEN Raises("InvalidSelectorException")
    ELSE IF Matches(by, v) = {} THEN Raises("NoSuchElementException")
    ELSE Returns(WebElement(Min(Matches(by, v))))

\* driver.find_elements(by, v)
find_elements(by, v) ==
    IF ~alive THEN Raises("WebDriverException")
    ELSE IF InvalidSelector(by, v) THEN Raises("InvalidSelectorException")
    ELSE Returns(PyList(InOrder(Matches(by, v))))

\* element.click(): the click is dispatched unless the session raises
click(n) ==
    IF ~alive THEN Raises("WebDriverException")
    ELSE IF status[n] = "absent" THEN Raises("StaleElementReferenceException")
    ELSE IF status[n] = "hidden" THEN Raises("ElementNotInteractableException")
    ELSE Returns(PyNone)

\* element.send_keys(keys): the exception raised, "" when the keys are typed
send_keys(n) ==
    IF ~alive THEN "WebDriverException"
    ELSE IF status[n] = "absent" THEN "StaleElementReferenceException"
    ELSE IF status[n] = "hidden" \/ Doc[n].tag # "input" THEN "ElementNotInteractableException"
    ELSE IF status[n] = "disabled" THEN "InvalidElementStateException"
    ELSE ""

\* faulty variant: the input is cleared before the keys are typed
TypedOverwrites(val, keys) == keys

\* what typing keys into a text input holding val leaves in it: the keys are
\* typed at the end of what is there
Typed(val, keys) == val \o keys

\* element.get_attribute("value") of node n when the input holds val
get_attribute_value(n, val) ==
    IF ~alive THEN Raises("WebDriverException")
    ELSE IF status[n] = "absent" THEN Raises("StaleElementReferenceException")
    ELSE IF Doc[n].tag = "input" THEN Returns(PyStr(val))
    ELSE Returns(PyNone)

(***************************************************************************)
(* Diagnostics (print) and the log of the calls made on the session.       *)
(***************************************************************************)
NoLoc == Py("-", {}, "", "", 0, <<>>, <<>>)

Diag(m, l, k, v, e, t) ==
    [msg |-> m, loc |-> l, type |-> k, value |-> v, exc |-> e, timeout |-> t]

SessionCall(c, by, v, n, e) == [call |-> c, by |-> by, value |-> v, node |-> n, exc |-> e]

\* What an operation of the resolver does: the exception that leaves it
\* ("" when it returns), what it returns, what it prints, the calls it makes
\* on the session, the value the text input holds afterwards and whether the
\* session is still there.
Out(e, r, d, c, val) ==
    [exc |-> e, ret |-> r, diag |-> d, calls |-> c, val |-> val, live |-> alive]

\* Python's None where a strategy is expected
NoStrategy == ""

\* faulty variant: a kind the chain does not know falls back on By.ID
FindByOneDefaultsToId(kind) ==
    IF kind = "id" THEN By.ID
    ELSE IF kind = "xpath" THEN By.XPATH
    ELSE IF kind = "css" THEN By.CSS_SELECTOR
    ELSE IF kind = "name" THEN By.NAME
    ELSE IF kind = "class" THEN By.CLASS_NAME
    ELSE IF kind = "link_text" THEN By.LINK_TEXT
    ELSE IF kind = "partial_link_text" THEN By.PARTIAL_LINK_TEXT
    ELSE IF kind = "tag_name" THEN By.TAG_NAME
    ELSE By.ID

\* faulty variant: the branch of 'name' selects By.ID
FindByOneNameAsId(kind) ==
    IF kind = "id" THEN By.ID
    ELSE IF kind = "xpath" THEN By.XPATH
    ELSE IF kind = "css" THEN By.CSS_SELECTOR
    ELSE IF kind = "name" THEN By.ID
    ELSE IF kind = "class" THEN By.CLASS_NAME
    ELSE IF kind = "link_text" THEN By.LINK_TEXT
    ELSE IF kind = "partial_link_text" THEN By.PARTIAL_LINK_TEXT
    ELSE IF kind = "tag_name" THEN By.TAG_NAME
    ELSE NoStrategy

\* the if/elif chain of get_page_element
FindByOne(kind) ==
    IF kind = "id" THEN By.ID
    ELSE IF kind = "xpath" THEN By.XPATH
    ELSE IF kind = "css" THEN By.CSS_SELECTOR
    ELSE IF kind = "name" THEN By.NAME
    ELSE IF kind = "class" THEN By.CLASS_NAME
    ELSE IF kind = "link_text" THEN By.LINK_TEXT
    ELSE IF kind = "partial_link_text" THEN By.PARTIAL_LINK_TEXT
    ELSE IF kind = "tag_name" THEN By.TAG_NAME
    ELSE NoStrategy

\* faulty variant: a kind the chain does not know falls back on By.ID
FindByManyDefaultsToId(kind) ==
    IF kind = "id" THEN By.ID
    ELSE IF kind = "xpath" THEN By.XPATH
    ELSE IF kind = "css" THEN By.CSS_SELECTOR
    ELSE IF kind = "name" THEN By.NAME
    ELSE IF kind = "class" THEN By.CLASS_NAME
    ELSE IF kind = "link_text" THEN By.LINK_TEXT
    ELSE IF kind = "partial_link_text" THEN By.PARTIAL_LINK_TEXT
    ELSE IF kind = "tag_name" THEN By.TAG_NAME
    ELSE By.ID

\* the if/elif chain of get_page_elements
FindByMany(kind) ==
    IF kind = "id" THEN By.ID
    ELSE IF kind = "xpath" THEN By.XPATH
    ELSE IF kind = "css" THEN By.CSS_SELECTOR
    ELSE IF kind = "name" THEN By.NAME
    ELSE IF kind = "class" THEN By.CLASS_NAME
    ELSE IF kind = "link_text" THEN By.LINK_TEXT
    ELSE IF kind = "partial_link_text" THEN By.PARTIAL_LINK_TEXT
    ELSE IF kind = "tag_name" THEN By.TAG_NAME
    ELSE NoStrategy

locator_map ==
    [id |-> By.ID, xpath |-> By.XPATH, css |-> By.CSS_SELECTOR, name |-> By.NAME,
     class |-> By.CLASS_NAME, link_text |-> By.LINK_TEXT,
     partial_link_text |-> By.PARTIAL_LINK_TEXT, tag_name |-> By.TAG_NAME]

\* faulty variant: the table was written without 'partial_link_text'
_get_by_type_short(locator_type) ==
    IF locator_type \in DOMAIN locator_map \ {"partial_link_text"}
    THEN locator_map[locator_type]
    ELSE NoStrategy

\* locator_map.get(locator_type)
_get_by_type(locator_type) ==
    IF locator_type \in DOMAIN locator_map THEN locator_map[locator_type] ELSE NoStrategy

\* CommonPageElements.get_page_element(locator)
get_page_element(locator) ==
    IF ~Truthy(locator) \/ ~IsDict(locator)
    THEN Out("", PyNone, <<Diag("Invalid locator format", NoLoc, "", "", "", -1)>>, <<>>, value)
    ELSE IF "type" \notin locator.has
    THEN Out("KeyError", PyNone, <<>>, <<>>, value)
    ELSE LET find_by == FindByOne(locator.type) IN
         IF find_by # NoStrategy
         THEN IF "value" \notin locator.has
              THEN Out("", PyNone,
                       <<Diag("Element not found with locator", locator, "", "", "KeyError", -1)>>,
                       <<>>, value)
              ELSE LET r == find_element(find_by, locator.value)
                       c == SessionCall("find_element", find_by, locator.value, 0, r.exc)
                   IN  IF r.exc = ""
                       THEN Out("", r.ret, <<>>, <<c>>, value)
                       ELSE Out("", PyNone,
                                <<Diag("Element not found with locator", locator, "", "", r.exc, -1)>>,
                                <<c>>, value)
         ELSE IF "value" \notin locator.has
              THEN Out("KeyError", PyNone, <<>>, <<>>, value)
              ELSE Out("", PyNone,
                       <<Diag("Invalid locator type for locator", NoLoc, locator.type,
                              locator.value, "", -1)>>,
                       <<>>, value)

\* CommonPageElements.get_page_elements(locator)
get_page_elements(locator) ==
    IF ~Truthy(locator) \/ ~IsDict(locator)
    THEN Out("", PyList(<<>>), <<Diag("Invalid locator format", NoLoc, "", "", "", -1)>>, <<>>, value)
    ELSE IF "type" \notin locator.has
    THEN Out("KeyError", PyNone, <<>>, <<>>, value)
    ELSE LET find_by == FindByMany(locator.type) IN
         IF find_by # NoStrategy
         THEN IF "value" \notin locator.has
              THEN Out("", PyList(<<>>),
                       <<Diag("Elements not found with locator", locator, "", "", "KeyError", -1)>>,
                       <<>>, value)
              ELSE LET r == find_elements(find_by, locator.value)
                       c == SessionCall("find_elements", find_by, locator.value, 0, r.exc)
                   IN  IF r.exc = ""
                       THEN Out("", r.ret, <<>>, <<c>>, value)
                       ELSE Out("", PyList(<<>>),
                                <<Diag("Elements not found with locator", locator, "", "", r.exc, -1)>>,
                                <<c>>, value)
         ELSE IF "value" \notin locator.has
              THEN Out("KeyError", PyNone, <<>>, <<>>, value)
              ELSE Out("", PyList(<<>>),
                       <<Diag("Invalid locator type for locator", NoLoc, locator.type,
                              locator.value, "", -1)>>,
                       <<>>, value)

NoOut == Out("", PyNone, <<>>, <<>>, value)

\* click_element's except clause: print, and fall off the end (None)
ExceptClicking(diag, calls, e) ==
    Out("", PyNone,
        diag \o <<Diag("Exception occurred while clicking", NoLoc, "", "", e, -1)>>,
        calls, value)

\* element.click() on whatever Python value was passed as the element
ClickOn(x, before) ==
    IF x.py # "WebElement"
    THEN ExceptClicking(before.diag, before.calls, "AttributeError")
    ELSE LET r == click(x.node)
             c == SessionCall("click", "", "", x.node, r.exc)
         IN  IF r.exc = ""
             THEN Out("", PyNone, before.diag, before.calls \o <<c>>, value)
             ELSE ExceptClicking(before.diag, before.calls \o <<c>>, r.exc)

\* faulty variant: the element is clicked without looking at what
\* get_page_element returned
click_element_unchecked(element) ==
    IF IsDict(element)
    THEN LET r == get_page_element(element) IN
         IF r.exc # ""
         THEN ExceptClicking(r.diag, r.calls, r.exc)
         ELSE ClickOn(r.ret, r)
    ELSE ClickOn(element, NoOut)

\* CommonPageElements.click_element(element)
click_element(element) ==
    IF IsDict(element)
    THEN LET r == get_page_element(element) IN
         IF r.exc # ""
         THEN ExceptClicking(r.diag, r.calls, r.exc)
         ELSE IF Truthy(r.ret)
         THEN ClickOn(r.ret, r)
         ELSE Out("", PyNone,
                  r.diag \o <<Diag("Could not find element to click", element, "", "", "", -1)>>,
                  r.calls, value)
    ELSE ClickOn(element, NoOut)

\* faulty variant: the except clause returns None and prints nothing
ExceptSendingKeysSilent(diag, calls, e, val) == Out("", PyNone, diag, calls, val)

\* enter_keys_to_element's except clause: print, return None
ExceptSendingKeys(diag, calls, e, val) ==
    Out("", PyNone,
        diag \o <<Diag("Exception occurred while sending keys", NoLoc, "", "", e, -1)>>,
        calls, val)

\* element.send_keys(keys); return element.get_attribute("value").  With lost,
\* the session goes away between the two calls.
SendKeysTo(x, keys, before, lost) ==
    IF x.py # "WebElement"
    THEN ExceptSendingKeys(before.diag, before.calls, "AttributeError", value)
    ELSE LET e == send_keys(x.node)
             c == SessionCall("send_keys", "", "", x.node, e)
         IN  IF e # ""
             THEN ExceptSendingKeys(before.diag, before.calls \o <<c>>, e, value)
             ELSE LET val == Typed(value, keys)
                      a == IF lost THEN Raises("WebDriverException")
                           ELSE get_attribute_value(x.node, val)
                      g == SessionCall("get_attribute", "", "value", x.node, a.exc)
                  IN  IF a.exc = ""
                      THEN Out("", a.ret, before.diag, before.calls \o <<c, g>>, val)
                      ELSE [ExceptSendingKeys(before.diag, before.calls \o <<c, g>>, a.exc, val)
                               EXCEPT !.live = FALSE]

\* CommonPageElements.enter_keys_to_element(element, keys)
enter_keys_to_element(element, keys, lost) ==
    IF IsDict(element)
    THEN LET r == get_page_element(element) IN
         IF r.exc # ""
         THEN ExceptSendingKeys(r.diag, r.calls, r.exc, value)
         ELSE IF Truthy(r.ret)
         THEN SendKeysTo(r.ret, keys, r, lost)
         ELSE Out("", PyNone,
                  r.diag \o <<Diag("Could not find element to send keys", element, "", "", "", -1)>>,
                  r.calls, value)
    ELSE SendKeysTo(element, keys, NoOut, lost)

(***************************************************************************)
(* The waits.  self.wait.until(condition) checks the condition, sleeps the *)
(* poll interval and gives up once the clock has passed its limit; the     *)
(* document goes on changing between two checks.                           *)
(***************************************************************************)
Idle ==
    [pc |-> "idle", name |-> "", locator |-> PyNone, timeout |-> 0, by |-> NoStrategy,
     elapsed |-> 0, polls |-> 0]

\* the seconds self.wait, a WebDriverWait(driver, 10), waits when the call
\* was given timeout
WaitLimit(timeout) == WaitSeconds

\* the print of each wait's except clause
WaitDiag(name) ==
    IF name = "wait_for_element_to_be_clickable"
    THEN "Element not clickable within seconds"
    ELSE "Element not visible within seconds"

\* faulty variant: both waits use the visibility condition
IsReadyWhenDisplayed(name, n) == status[n] \in {"disabled", "ready"}

\* EC.element_to_be_clickable / EC.visibility_of_element_located on node n
IsReady(name, n) ==
    IF name = "wait_for_element_to_be_clickable"
    THEN status[n] = "ready"
    ELSE status[n] \in {"disabled", "ready"}

\* one evaluation of the expected condition: the element, False (None here),
\* or the exception that leaves until(); NoSuchElementException is ignored
Condition(name, by, v) ==
    LET r == find_element(by, v) IN
    IF r.exc = "NoSuchElementException" THEN Returns(PyNone)
    ELSE IF r.exc # "" THEN r
    ELSE IF IsReady(name, r.ret.node) THEN r
    ELSE Returns(PyNone)

(***************************************************************************)
(* The call that returned in the step just taken (NoCall when the step was *)
(* the environment's).                                                     *)
(***************************************************************************)
Call(nm, a, k, t, o, prior, el, po) ==
    [name |-> nm, arg |-> a, keys |-> k, timeout |-> t, exc |-> o.exc, ret |-> o.ret,
     diag |-> o.diag, calls |-> o.calls, prior |-> prior, elapsed |-> el, polls |-> po]

NoCall == Call("", PyNone, <<>>, 0, NoOut, <<>>, 0, 0)

(***************************************************************************)
(* The arguments the operations are called with.                           *)
(***************************************************************************)
Kinds == {"id", "xpath", "css", "name", "class", "link_text", "partial_link_text", "tag_name"}
OtherKinds == {"bogus", "ID"}

Descriptors == {Descriptor(k, v) : k \in Kinds \cup OtherKinds, v \in Values}

\* None, {}, a dict without 'type', dicts without 'value', a list
Malformed ==
    {PyNone, PyDict({}, "", ""), PyDict({"value"}, "", "q"), PyDict({"type"}, "id", ""),
     PyDict({"type"}, "bogus", ""), PyJunk}

Locators == Descriptors \cup Malformed
Elements == {WebElement(n) : n \in Nodes}

RECURSIVE SeqsUpTo(_)
SeqsUpTo(n) ==
    IF n = 0 THEN {<<>>}
    ELSE SeqsUpTo(n - 1) \cup {Append(q, c) : q \in {x \in SeqsUpTo(n - 1) : Len(x) = n - 1}, c \in Chars}

Texts == SeqsUpTo(MaxLen)
Timeouts == {0, DefaultTimeout}
WaitNames == {"wait_for_element_to_be_clickable", "wait_for_element_visible"}

(***************************************************************************)
(* The locator file and the page objects.                                  *)
(***************************************************************************)
Names == {"search-box", "search-input"}

\* what a name of the file maps to: nothing, a descriptor, a dict without
\* 'value', a plain string
Missing == Py("missing", {}, "", "", 0, <<>>, <<>>)
Entries ==
    {Missing, Descriptor("id", "sb_form_q"), PyDict({"type"}, "id", ""), PyStr(<<"a">>)}

\* the file: not there, or there with text that is not YAML, is empty, is a
\* scalar, is a list, or is a mapping
Files ==
    {[kind |-> k, map |-> [n \in Names |-> Missing]] :
        k \in {"absent", "not yaml", "empty", "scalar", "list"}}
    \cup {[kind |-> "mapping", map |-> m] : m \in [Names -> Entries]}

\* yaml.load(file, Loader=yaml.FullLoader) on a file that parses
Loaded(f) ==
    [py |-> CASE f.kind = "empty" -> "None"
              [] f.kind = "scalar" -> "str"
              [] f.kind = "list" -> "list"
              [] OTHER -> "dict",
     map |-> f.map]

\* faulty variant: a file that cannot be read or parsed gives an empty mapping
get_locators_lenient(f) == [exc |-> "", locators |-> Loaded(f)]

\* Helper.get_locators(filename): [exc, locators]
get_locators(f) ==
    IF f.kind = "absent" THEN [exc |-> "FileNotFoundError", locators |-> Loaded(f)]
    ELSE IF f.kind = "not yaml" THEN [exc |-> "YAMLError", locators |-> Loaded(f)]
    ELSE [exc |-> "", locators |-> Loaded(f)]

(***************************************************************************)
(* The test run: which conftest is in force, the command line and the      *)
(* environment it was started with, the driver sessions created so far,    *)
(* what became of each test, and the blobs uploaded.                       *)
(***************************************************************************)
\* tests collected in one run
MaxTests == 2
\* files found under reports/allure-results and screenshots at the end
MaxFiles == 2

\* an environment variable that is not set
NotSet == "<unset>"

\* str.lower() on the strings used here
Lower(s) ==
    CASE s = "Chrome" -> "chrome"
      [] s = "FIREFOX" -> "firefox"
      [] s = "TRUE" -> "true"
      [] s = "True" -> "true"
      [] OTHER -> s

\* os.getenv(name, default)
getenv(v, default) == IF v = NotSet THEN default ELSE v

NoResult ==
    [wants |-> FALSE, setup |-> "", driver |-> 0, uses |-> 0, outcome |-> "",
     reports |-> <<>>, env |-> FALSE, shot |-> "", shotAt |-> ""]

RunOf(conf, option, flag, upload, account, key) ==
    [conf |-> conf, option |-> option, flag |-> flag, upload |-> upload,
     account |-> account, key |-> key,
     phase |-> "setup", test |-> 1, sessions |-> <<>>,
     results |-> [t \in 1..MaxTests |-> NoResult],
     blobs |-> 0, diag |-> <<>>, raised |-> ""]

\* a run with tests/conftest.py, nothing given on the command line or set
NoRun == RunOf("conftest", "chrome", FALSE, NotSet, NotSet, NotSet)

(***************************************************************************)
(* Initial state: a session with some document loaded, no call made, the   *)
(* locator file as shipped, no page object constructed.                    *)
(***************************************************************************)
ShippedFile ==
    [kind |-> "mapping",
     map |-> [n \in Names |-> IF n = "search-box" THEN Descriptor("id", "sb_form_q") ELSE Missing]]

Init ==
    /\ alive = TRUE
    /\ status \in [Nodes -> NodeStatus]
    /\ value = <<>>
    /\ wait = Idle
    /\ last = NoCall
    /\ file = ShippedFile
    /\ pages = <<>>
    /\ run = NoRun

(***************************************************************************)
(* The resolver's operations.  One flow drives the session: a call is made *)
(* when no wait is blocking it and the previous call's result was taken.   *)
(***************************************************************************)
CanCall == wait.pc = "idle" /\ last = NoCall

Effect(o) ==
    /\ value' = o.val
    /\ alive' = o.live
    /\ UNCHANGED <<status, wait, file, pages, run>>

GetPageElement ==
    /\ CanCall
    /\ \E locator \in Locators \cup Elements :
        /\ LET o == get_page_element(locator) IN
           /\ last' = Call("get_page_element", locator, <<>>, 0, o, value, 0, 0)
           /\ Effect(o)

GetPageElements ==
    /\ CanCall
    /\ \E locator \in Locators \cup Elements :
        /\ LET o == get_page_elements(locator) IN
           /\ last' = Call("get_page_elements", locator, <<>>, 0, o, value, 0, 0)
           /\ Effect(o)

ClickElement ==
    /\ CanCall
    /\ \E element \in Locators \cup Elements :
        /\ LET o == click_element(element) IN
           /\ last' = Call("click_element", element, <<>>, 0, o, value, 0, 0)
           /\ Effect(o)

EnterKeysToElement ==
    /\ CanCall
    /\ \E element \in Locators \cup Elements, keys \in Texts, lost \in BOOLEAN :
        /\ Len(value) + Len(keys) <= MaxLen
        /\ LET o == enter_keys_to_element(element, keys, lost) IN
           /\ lost => ~o.live /\ alive
           /\ last' = Call("enter_keys_to_element", element, keys, 0, o, value, 0, 0)
           /\ Effect(o)

\* the except clause of a wait: the diagnostic, and None
WaitFailed(name, timeout, e) ==
    Out("", PyNone, <<Diag(WaitDiag(name), NoLoc, "", "", e, timeout)>>, <<>>, value)

\* wait_for_element_to_be_clickable / wait_for_element_visible, up to the
\* first check of the condition
StartWait ==
    /\ CanCall
    /\ \E name \in WaitNames, locator \in Locators, timeout \in Timeouts :
        /\ UNCHANGED <<alive, status, value, file, pages, run>>
        /\ LET done(o) == /\ last' = Call(name, locator, <<>>, timeout, o, value, 0, 0)
                          /\ wait' = Idle
           IN
           IF ~IsDict(locator) THEN done(WaitFailed(name, timeout, "TypeError"))
           ELSE IF "type" \notin locator.has THEN done(WaitFailed(name, timeout, "KeyError"))
           ELSE IF _get_by_type(locator.type) = NoStrategy THEN done(NoOut)
           ELSE IF "value" \notin locator.has THEN done(WaitFailed(name, timeout, "KeyError"))
           ELSE /\ wait' = [pc |-> "polling", name |-> name, locator |-> locator,
                            timeout |-> timeout, by |-> _get_by_type(locator.type),
                            elapsed |-> 0, polls |-> 0]
                /\ last' = NoCall

\* one turn of until(): check the condition, sleep, look at the clock
Poll ==
    /\ wait.pc = "polling"
    /\ UNCHANGED <<alive, status, value, file, pages, run>>
    /\ LET c == Condition(wait.name, wait.by, wait.locator.value)
           polls == wait.polls + 1
           slept == wait.elapsed + PollInterval
           done(o, el) ==
               /\ last' = Call(wait.name, wait.locator, <<>>, wait.timeout, o, value, el, polls)
               /\ wait' = Idle
       IN
       IF c.exc # "" THEN done(WaitFailed(wait.name, wait.timeout, c.exc), wait.elapsed)
       ELSE IF Truthy(c.ret) THEN done(Out("", c.ret, <<>>, <<>>, value), wait.elapsed)
       ELSE IF slept > WaitLimit(wait.timeout)
       THEN done(WaitFailed(wait.name, wait.timeout, "TimeoutException"), slept)
       ELSE /\ wait' = [wait EXCEPT !.elapsed = slept, !.polls = polls]
            /\ last' = NoCall

(***************************************************************************)
(* The environment: the page changes, the session is lost.                 *)
(***************************************************************************)
PageChange ==
    \E n \in Nodes, s \in NodeStatus :
        /\ alive
        /\ status[n] # s
        /\ status' = [status EXCEPT ![n] = s]
        /\ value' = IF Doc[n].tag = "input" /\ s = "absent" THEN <<>> ELSE value
        /\ last' = NoCall
        /\ UNCHANGED <<alive, wait, file, pages, run>>

SessionLost ==
    /\ alive
    /\ alive' = FALSE
    /\ last' = NoCall
    /\ UNCHANGED <<status, value, wait, file, pages, run>>

\* the caller takes what the call returned and goes on
Resume ==
    /\ last # NoCall
    /\ last' = NoCall
    /\ UNCHANGED <<alive, status, value, wait, file, pages, run>>

(***************************************************************************)
(* Construction of the page object, and the locator file changing on disk. *)
(***************************************************************************)
Unset == [py |-> "unset", map |-> [n \in Names |-> Missing]]

\* SearchPage.__init__(driver): the exception that leaves it, whether the
\* object was constructed, and its page_locators
SearchPage(f) ==
    LET r == get_locators(f) IN
    IF r.exc # ""
    THEN [exc |-> r.exc, constructed |-> FALSE, page_locators |-> Unset]
    ELSE [exc |-> "", constructed |-> TRUE, page_locators |-> r.locators]

\* faulty variant: page_locators is one mapping shared by the page objects,
\* replaced at each construction
NewSearchPageShared ==
    /\ CanCall
    /\ Len(pages) < MaxPages
    /\ LET p == SearchPage(file) IN
       /\ pages' = [i \in 1..(Len(pages) + 1) |-> p]
       /\ last' = Call("SearchPage", PyNone, <<>>, 0, [NoOut EXCEPT !.exc = p.exc], value, 0, 0)
    /\ UNCHANGED <<alive, status, value, wait, file, run>>

NewSearchPage ==
    /\ CanCall
    /\ Len(pages) < MaxPages
    /\ LET p == SearchPage(file) IN
       /\ pages' = Append(pages, p)
       /\ last' = Call("SearchPage", PyNone, <<>>, 0, [NoOut EXCEPT !.exc = p.exc], value, 0, 0)
    /\ UNCHANGED <<alive, status, value, wait, file, run>>

WriteFile ==
    /\ CanCall
    /\ \E f \in Files :
        /\ f # file
        /\ file' = f
        /\ UNCHANGED <<alive, status, value, wait, last, pages, run>>

NextLoad ==
    \/ NewSearchPage
    \/ WriteFile
    \/ Resume

\* one document is enough where only the file and the page objects move
InitLoad == Init /\ status = [n \in Nodes |-> "ready"]

SpecLoad == InitLoad /\ [][NextLoad]_vars

Next ==
    \/ GetPageElement
    \/ GetPageElements
    \/ ClickElement
    \/ EnterKeysToElement
    \/ StartWait
    \/ Poll
    \/ Resume
    \/ PageChange
    \/ SessionLost

Spec == Init /\ [][Next]_vars


(***************************************************************************)
(* The search page object (src/src/search.py).  Its operations read the    *)
(* page object's own page_locators and drive the session.                  *)
(***************************************************************************)
PageNames ==
    Names \cup {"search-results", "search-suggestions", "stock-price", "stock-symbol"}

\* a locator file that gives each name of the page object an entry
PageFile(kind, box, input, results, suggestions, price, symbol) ==
    [kind |-> kind,
     map |-> [n \in PageNames |->
                CASE n = "search-box" -> box
                  [] n = "search-input" -> input
                  [] n = "search-results" -> results
                  [] n = "search-suggestions" -> suggestions
                  [] n = "stock-price" -> price
                  [] n = "stock-symbol" -> symbol]]

\* the locator files the page objects are constructed from: every name
\* resolvable; a search box that matches no node; no search box; entries
\* that are no descriptors; an empty file
PageFiles ==
    {PageFile("mapping", Descriptor("id", "sb_form_q"), Descriptor("name", "q"),
              Descriptor("css", "input"), Descriptor("css", "input"),
              Descriptor("id", "q"), Missing),
     PageFile("mapping", Descriptor("id", "input"), Descriptor("name", "q"),
              Descriptor("id", "q"), Descriptor("xpath", "//a"),
              Missing, Descriptor("bogus", "q")),
     PageFile("mapping", Missing, Descriptor("id", "sb_form_q"),
              Missing, Missing, Missing, Missing),
     PageFile("mapping", PyDict({"value"}, "", "q"), PyStr(<<"a">>),
              PyStr(<<"a">>), PyDict({"type"}, "css", ""),
              PyDict({"value"}, "", "q"), Missing),
     PageFile("empty", Missing, Missing, Missing, Missing, Missing, Missing)}

\* the mapping has an entry under name
HasEntry(store, name) ==
    store.py = "dict" /\ name \in DOMAIN store.map /\ store.map[name] # Missing

\* page_locators[name]
Subscript(store, name) ==
    IF store.py # "dict" THEN Raises("TypeError")
    ELSE IF ~HasEntry(store, name) THEN Raises("KeyError")
    ELSE Returns(store.map[name])

\* page_locators.get(name, default)
Get(store, name, default) ==
    IF store.py # "dict" THEN Raises("AttributeError")
    ELSE IF ~HasEntry(store, name) THEN Returns(default)
    ELSE Returns(store.map[name])

\* what a try block of check_search_element makes of the resolver's answer:
\* the element, False for None, or the exception that leaves the block
ElementOrFalse(o) ==
    IF o.exc # "" THEN o
    ELSE [o EXCEPT !.ret = IF Truthy(o.ret) THEN o.ret ELSE PyBool(FALSE)]

\* one try block of check_search_element, for the locator under name
TryLocator(store, name) ==
    IF Subscript(store, name).exc # ""
    THEN Out(Subscript(store, name).exc, PyNone, <<>>, <<>>, value)
    ELSE ElementOrFalse(get_page_element(Subscript(store, name).ret))

\* the except clause of check_search_element: the alternative locator, and
\* False when that raises too
Alternative(second) ==
    IF second.exc = "" THEN second ELSE Out("", PyBool(FALSE), <<>>, <<>>, value)

\* try: search-box; except: search-input
FirstOrAlternative(first, store) ==
    IF first.exc = "" THEN first ELSE Alternative(TryLocator(store, "search-input"))

\* SearchPage.check_search_element()
check_search_element(store) ==
    FirstOrAlternative(TryLocator(store, "search-box"), store)

\* element.clear(): the exception raised, "" when the input is emptied
clear(n) ==
    IF ~alive THEN "WebDriverException"
    ELSE IF status[n] = "absent" THEN "StaleElementReferenceException"
    ELSE IF status[n] = "hidden" THEN "ElementNotInteractableException"
    ELSE IF status[n] = "disabled" \/ Doc[n].tag # "input" THEN "InvalidElementStateException"
    ELSE ""

\* selenium.webdriver.common.keys.Keys, as key sequences
ENTER == <<"ENTER">>
SelectAll == <<"CONTROL", "a">>
DELETE == <<"DELETE">>

\* what a key sequence sent to the input holding val leaves in it: Enter
\* submits, Control+a selects, Delete removes the selection made before it
Pressed(val, keys) ==
    IF keys = ENTER \/ keys = SelectAll THEN val
    ELSE IF keys = DELETE THEN <<>>
    ELSE Typed(val, keys)

\* a call on an element, as logged: clear() or send_keys(keys)
KeyCall(c, n, keys, e) ==
    [call |-> c, by |-> "", value |-> "", node |-> n, exc |-> e, keys |-> keys]

Clear == [op |-> "clear", keys |-> <<>>]
SendKeys(keys) == [op |-> "send_keys", keys |-> keys]

\* the exception statement number k raises on node n, "" when it completes;
\* the session is lost right before statement number lost (0: never)
StepExc(n, step, k, lost) ==
    IF lost # 0 /\ k >= lost THEN "WebDriverException"
    ELSE IF step.op = "clear" THEN clear(n)
    ELSE send_keys(n)

\* the number of the first statement that raises, Len(steps) + 1 when none
Raising(n, steps, lost) ==
    Min({k \in 1..Len(steps) : StepExc(n, steps[k], k, lost) # ""} \cup {Len(steps) + 1})

\* what the input holds after the first k statements, starting from val
RECURSIVE After(_, _, _)
After(val, steps, k) ==
    IF k = 0 THEN val
    ELSE IF steps[k].op = "clear" THEN <<>>
    ELSE Pressed(After(val, steps, k - 1), steps[k].keys)

\* the statements run on node n in order, up to the first that raises (stop)
Interact(n, steps, lost, stop, calls) ==
    [exc |-> IF stop > Len(steps) THEN "" ELSE StepExc(n, steps[stop], stop, lost),
     val |-> After(value, steps, stop - 1),
     calls |-> calls \o [k \in 1..(IF stop > Len(steps) THEN Len(steps) ELSE stop) |->
                            KeyCall(steps[k].op, n, steps[k].keys,
                                    StepExc(n, steps[k], k, lost))],
     live |-> alive /\ (lost = 0 \/ stop < lost)]

\* faulty variant: the except clause reports success
ExceptTypingTrue(c, r, msg) ==
    [exc |-> "", ret |-> PyBool(TRUE),
     diag |-> Append(c.diag, Diag(msg, NoLoc, "", "", r.exc, 0)),
     calls |-> r.calls, val |-> r.val, live |-> r.live]

\* except Exception as e: print(f"...: {e}"); return False
ExceptTyping(c, r, msg) ==
    [exc |-> "", ret |-> PyBool(FALSE),
     diag |-> Append(c.diag, Diag(msg, NoLoc, "", "", r.exc, 0)),
     calls |-> r.calls, val |-> r.val, live |-> r.live]

\* the statements after the search element c was found: True when all of
\* them complete
Typing(c, r, msg) ==
    IF r.exc # "" THEN ExceptTyping(c, r, msg)
    ELSE [exc |-> "", ret |-> PyBool(TRUE), diag |-> c.diag,
          calls |-> r.calls, val |-> r.val, live |-> r.live]

\* if not search_element: return False; else the statements
FoundThenTyping(c, steps, lost, msg) ==
    IF ~Truthy(c.ret) THEN c
    ELSE Typing(c, Interact(c.ret.node, steps, lost, Raising(c.ret.node, steps, lost),
                            c.calls), msg)

\* the try block the three typing operations share
TypeInto(store, steps, lost, msg) ==
    FoundThenTyping(check_search_element(store), steps, lost, msg)

\* faulty variant: the symbol is typed before the input is cleared
search_for_stock_types_first(store, stock_symbol, lost) ==
    TypeInto(store, <<SendKeys(stock_symbol), Clear, SendKeys(ENTER)>>, lost,
             "Error during search")

\* SearchPage.search_for_stock(stock_symbol)
search_for_stock(store, stock_symbol, lost) ==
    TypeInto(store, <<Clear, SendKeys(stock_symbol), SendKeys(ENTER)>>, lost,
             "Error during search")

\* SearchPage.clear_and_search_stock(stock_symbol)
clear_and_search_stock(store, stock_symbol, lost) ==
    TypeInto(store,
             <<Clear, SendKeys(SelectAll), SendKeys(DELETE), SendKeys(stock_symbol),
               SendKeys(ENTER)>>,
             lost, "Error during clear and search")

\* SearchPage.clear_search_box()
clear_search_box(store, lost) ==
    TypeInto(store, <<Clear>>, lost, "Error clearing search box")

\* SearchPage.verify_stock_information_displayed()
verify_stock_information_displayed(store) ==
    LET pl == Get(store, "stock-price", PyDict({}, "", ""))
        price == get_page_element(pl.ret)
        sl == Get(store, "stock-symbol", PyDict({}, "", ""))
        symbol == get_page_element(sl.ret)
    IN
    IF pl.exc # "" \/ price.exc # ""
    THEN Out("", PyBool(FALSE), <<>>, <<>>, value)
    ELSE IF symbol.exc # ""
    THEN Out("", PyBool(FALSE), price.diag, price.calls, value)
    ELSE Out("", PyBool(Truthy(price.ret) \/ Truthy(symbol.ret)),
             price.diag \o symbol.diag, price.calls \o symbol.calls, value)

\* timeout=5, the default of wait_for_search_suggestions
SuggestionsTimeout == 5

PageWaitNames == {"get_search_results", "wait_for_search_suggestions"}
PageTimeouts == {0, SuggestionsTimeout}

\* the name each waiting operation looks up
LocatorName(name) ==
    IF name = "get_search_results" THEN "search-results" ELSE "search-suggestions"

\* what the except clause, and the path without a locator, return
Empty(name) ==
    Out("", IF name = "get_search_results" THEN PyList(<<>>) ELSE PyBool(FALSE),
        <<>>, <<>>, value)

\* seconds self.wait.until(condition, timeout) waits: those of self.wait,
\* the second argument being the message of the TimeoutException
PageWaitLimit(timeout) == WaitSeconds

\* EC.presence_of_element_located((By.CSS_SELECTOR, locator["value"])), once
Present(locator) ==
    LET r == find_element(By.CSS_SELECTOR, locator.value) IN
    IF r.exc = "NoSuchElementException" THEN Returns(PyNone) ELSE r

\* what a waiting operation returns once the element is present
Found(name, locator) ==
    LET r == find_elements(By.CSS_SELECTOR, locator.value)
        call == <<SessionCall("find_elements", By.CSS_SELECTOR, locator.value, 0, r.exc)>>
    IN
    IF name = "wait_for_search_suggestions" THEN Out("", PyBool(TRUE), <<>>, <<>>, value)
    ELSE IF r.exc # "" THEN Out("", PyList(<<>>), <<>>, call, value)
    ELSE Out("", r.ret, <<>>, call, value)

\* the call of page object number i that returned in the step just taken
PageCall(i, nm, k, t, o, el, po) ==
    [name |-> nm, arg |-> PyNone, keys |-> k, timeout |-> t, exc |-> o.exc, ret |-> o.ret,
     diag |-> o.diag, calls |-> o.calls, prior |-> value, elapsed |-> el, polls |-> po,
     page |-> i]

Constructed == {i \in DOMAIN pages : pages[i].constructed}

CheckSearchElement ==
    /\ CanCall
    /\ \E i \in Constructed :
        LET o == check_search_element(pages[i].page_locators) IN
        /\ last' = PageCall(i, "check_search_element", <<>>, 0, o, 0, 0)
        /\ Effect(o)

SearchForStock ==
    /\ CanCall
    /\ \E i \in Constructed, stock_symbol \in Texts, lost \in 0..3 :
        LET o == search_for_stock(pages[i].page_locators, stock_symbol, lost) IN
        /\ lost # 0 => ~o.live /\ alive
        /\ last' = PageCall(i, "search_for_stock", stock_symbol, 0, o, 0, 0)
        /\ Effect(o)

ClearAndSearchStock ==
    /\ CanCall
    /\ \E i \in Constructed, stock_symbol \in Texts, lost \in 0..5 :
        LET o == clear_and_search_stock(pages[i].page_locators, stock_symbol, lost) IN
        /\ lost # 0 => ~o.live /\ alive
        /\ last' = PageCall(i, "clear_and_search_stock", stock_symbol, 0, o, 0, 0)
        /\ Effect(o)

ClearSearchBox ==
    /\ CanCall
    /\ \E i \in Constructed, lost \in 0..1 :
        LET o == clear_search_box(pages[i].page_locators, lost) IN
        /\ lost # 0 => ~o.live /\ alive
        /\ last' = PageCall(i, "clear_search_box", <<>>, 0, o, 0, 0)
        /\ Effect(o)

VerifyStockInformationDisplayed ==
    /\ CanCall
    /\ \E i \in Constructed :
        LET o == verify_stock_information_displayed(pages[i].page_locators) IN
        /\ last' = PageCall(i, "verify_stock_information_displayed", <<>>, 0, o, 0, 0)
        /\ Effect(o)

\* get_search_results / wait_for_search_suggestions, up to the first check
\* of the condition
StartPageWait ==
    /\ CanCall
    /\ \E i \in Constructed, name \in PageWaitNames, timeout \in PageTimeouts :
        /\ name = "get_search_results" => timeout = 0
        /\ UNCHANGED <<alive, status, value, file, pages, run>>
        /\ LET l == Get(pages[i].page_locators, LocatorName(name), PyNone)
               done == /\ last' = PageCall(i, name, <<>>, timeout, Empty(name), 0, 0)
                       /\ wait' = Idle
           IN
           IF l.exc # "" \/ ~Truthy(l.ret) THEN done
           ELSE IF ~IsDict(l.ret) \/ "value" \notin l.ret.has THEN done
           ELSE /\ wait' = [pc |-> "page polling", name |-> name, locator |-> l.ret,
                            timeout |-> timeout, by |-> By.CSS_SELECTOR,
                            elapsed |-> 0, polls |-> 0, page |-> i]
                /\ last' = NoCall

\* one turn of self.wait.until() in a page object's operation
PagePoll ==
    /\ wait.pc = "page polling"
    /\ UNCHANGED <<alive, status, value, file, pages, run>>
    /\ LET c == Present(wait.locator)
           polls == wait.polls + 1
           slept == wait.elapsed + PollInterval
           done(o, el) ==
               /\ last' = PageCall(wait.page, wait.name, <<>>, wait.timeout, o, el, polls)
               /\ wait' = Idle
       IN
       IF c.exc # "" THEN done(Empty(wait.name), wait.elapsed)
       ELSE IF Truthy(c.ret) THEN done(Found(wait.name, wait.locator), wait.elapsed)
       ELSE IF slept > PageWaitLimit(wait.timeout) THEN done(Empty(wait.name), slept)
       ELSE /\ wait' = [wait EXCEPT !.elapsed = slept, !.polls = polls]
            /\ last' = NoCall

\* a page object constructed from one of the locator files, on a session
\* with some document loaded
InitPage ==
    /\ alive = TRUE
    /\ status \in [Nodes -> NodeStatus]
    /\ value = <<>>
    /\ wait = Idle
    /\ last = NoCall
    /\ file \in PageFiles
    /\ pages = <<SearchPage(file)>>
    /\ run = NoRun

NextPage ==
    \/ CheckSearchElement
    \/ SearchForStock
    \/ ClearAndSearchStock
    \/ ClearSearchBox
    \/ VerifyStockInformationDisplayed
    \/ StartPageWait
    \/ PagePoll
    \/ Resume
    \/ PageChange
    \/ SessionLost

SpecPage == InitPage /\ [][NextPage]_vars

(***************************************************************************)
(* Page objects constructed while the locator file is edited on disk, each *)
(* used through its own and the inherited operations.                      *)
(***************************************************************************)
\* the locator file as shipped, and one that gives every name an entry
StoreFiles ==
    {ShippedFile,
     PageFile("mapping", Descriptor("id", "sb_form_q"), Descriptor("name", "q"),
              Descriptor("css", "input"), Descriptor("css", "q"),
              Descriptor("id", "q"), Missing)}

EditFile ==
    /\ CanCall
    /\ \E f \in StoreFiles :
        /\ f # file
        /\ file' = f
        /\ UNCHANGED <<alive, status, value, wait, last, pages, run>>

NextStore ==
    \/ NewSearchPage
    \/ EditFile
    \/ CheckSearchElement
    \/ SearchForStock
    \/ ClearAndSearchStock
    \/ ClearSearchBox
    \/ VerifyStockInformationDisplayed
    \/ StartPageWait
    \/ PagePoll
    \/ GetPageElement
    \/ GetPageElements
    \/ ClickElement
    \/ EnterKeysToElement
    \/ StartWait
    \/ Poll
    \/ Resume

SpecStore == InitLoad /\ [][NextStore]_vars

(***************************************************************************)
(* The fixtures and hooks of the test run (src/tests/conftest.py,          *)
(* src/tests/conftest_azure.py).  The runner takes the tests one at a      *)
(* time: setup of the fixture, the test body when setup returned, the      *)
(* fixture's cleanup when setup reached its yield; then the session        *)
(* finishes.                                                               *)
(***************************************************************************)
Conftests == {"conftest", "conftest_azure"}
BrowserOptions == {"chrome", "Chrome", "firefox", "edge"}
UploadValues == {NotSet, "true", "TRUE", "yes"}
Credentials == {NotSet, "", "secret"}

\* the browser_type fixture
browser_type(option) == Lower(option)

\* the browser fixture up to its yield: the exception that leaves it and
\* whether a driver session was created; started tells whether the driver
\* binary came up
browser(conf, type, started) ==
    IF type = "chrome" \/ type = "firefox"
    THEN IF started THEN [exc |-> "", created |-> TRUE]
         ELSE [exc |-> "WebDriverException", created |-> FALSE]
    ELSE IF conf = "conftest_azure"
    THEN [exc |-> "ValueError: Unsupported browser type", created |-> FALSE]
    ELSE [exc |-> "UnboundLocalError", created |-> FALSE]

\* faulty variant: the cleanup leaves the session running
quit_nothing(sessions, d) == sessions

\* driver.quit()
quit(sessions, d) == [sessions EXCEPT ![d].open = FALSE]

\* the runner goes on to the next test, or to the end of the session
Advance(r) ==
    IF r.test = MaxTests THEN [r EXCEPT !.phase = "finish"]
    ELSE [r EXCEPT !.test = @ + 1, !.phase = "setup"]

\* the definitions of pytest_runtest_makereport in conftest_azure.py, in
\* the order of the file: the one attaching the environment information,
\* then the hook wrapper taking the failure screenshot
MakereportDefinitions == <<"environment", "screenshot">>

\* the hook implementations the runner finds under the name
\* pytest_runtest_makereport: the module attribute, bound by the last def
\* statement of that name; conftest.py defines none
Registered(conf) ==
    IF conf = "conftest_azure"
    THEN {MakereportDefinitions[Len(MakereportDefinitions)]}
    ELSE {}

\* pytest_runtest_makereport(item, call), the first definition: whether the
\* environment information is attached
AttachesEnvironment(when) == when = "call"

\* faulty variant: the screenshot is taken for every report of a failure
ScreenshotOnAnyFailure(when, failed, driver, captured) ==
    IF ~failed THEN [shot |-> "", exc |-> ""]
    ELSE IF captured THEN [shot |-> "attached", exc |-> ""]
    ELSE [shot |-> "caught", exc |-> ""]

\* pytest_runtest_makereport(item, call), the hook wrapper: what becomes of
\* the screenshot and the exception that leaves the hook; driver is
\* item.funcargs.get('browser') (0: None), captured tells whether
\* save_screenshot and the attaching went through
Screenshot(when, failed, driver, captured) ==
    IF ~(when = "call" /\ failed) THEN [shot |-> "", exc |-> ""]
    ELSE IF driver = 0 THEN [shot |-> "", exc |-> ""]
    ELSE IF captured THEN [shot |-> "attached", exc |-> ""]
    ELSE [shot |-> "caught", exc |-> ""]

\* the report of one phase of a test after the registered hooks ran on it
Reported(res, conf, when, failed, captured) ==
    [res EXCEPT
        !.reports = Append(@, [when |-> when, failed |-> failed,
                               exc |-> IF "screenshot" \in Registered(conf)
                                       THEN Screenshot(when, failed, res.driver, captured).exc
                                       ELSE ""]),
        !.env = @ \/ ("environment" \in Registered(conf) /\ AttachesEnvironment(when)),
        !.shot = IF "screenshot" \in Registered(conf)
                    /\ Screenshot(when, failed, res.driver, captured).shot # ""
                 THEN Screenshot(when, failed, res.driver, captured).shot
                 ELSE @,
        !.shotAt = IF "screenshot" \in Registered(conf)
                      /\ Screenshot(when, failed, res.driver, captured).shot # ""
                   THEN when
                   ELSE @]

\* setup of a test: the browser fixture when the test asks for it (wants)
SetupResult(res, conf, type, wants, started, d) ==
    IF ~wants THEN [res EXCEPT !.setup = "ok"]
    ELSE IF browser(conf, type, started).exc = ""
    THEN [res EXCEPT !.wants = TRUE, !.setup = "ok", !.driver = d]
    ELSE [res EXCEPT !.wants = TRUE, !.setup = browser(conf, type, started).exc]

BrowserSetup ==
    /\ run.phase = "setup"
    /\ \E wants \in BOOLEAN, started \in BOOLEAN :
        LET t == run.test
            d == Len(run.sessions) + 1
            res == SetupResult(run.results[t], run.conf, browser_type(run.option),
                               wants, started, d)
            rep == Reported(res, run.conf, "setup", res.setup # "ok", FALSE)
        IN
        /\ ~wants => started
        /\ run' = IF res.setup # "ok"
                  THEN Advance([run EXCEPT !.results[t] = rep])
                  ELSE [run EXCEPT !.sessions = IF res.driver = 0 THEN @
                                                ELSE Append(@, [test |-> t, open |-> TRUE]),
                                   !.results[t] = rep,
                                   !.phase = "call"]
    /\ UNCHANGED <<alive, status, value, wait, last, file, pages>>

\* the test body, run with the driver the fixture yielded, and its report
TestBody ==
    /\ run.phase = "call"
    /\ \E outcome \in {"passed", "failed"}, captured \in BOOLEAN :
        LET res == [run.results[run.test] EXCEPT
                       !.outcome = outcome, !.uses = run.results[run.test].driver]
        IN
        run' = [run EXCEPT
                   !.results[run.test] =
                       Reported(res, run.conf, "call", outcome = "failed", captured),
                   !.phase = "teardown"]
    /\ UNCHANGED <<alive, status, value, wait, last, file, pages>>

\* the browser fixture after its yield, and the report of the teardown
BrowserTeardown ==
    /\ run.phase = "teardown"
    /\ LET res == run.results[run.test] IN
       run' = Advance([run EXCEPT
                          !.sessions = IF res.driver = 0 THEN @ ELSE quit(@, res.driver),
                          !.results[run.test] =
                              Reported(res, run.conf, "teardown", FALSE, FALSE)])
    /\ UNCHANGED <<alive, status, value, wait, last, file, pages>>

\* the azure_upload_enabled expression of pytest_sessionfinish
azure_upload_enabled(flag, upload) == flag \/ Lower(getenv(upload, "false")) = "true"

\* faulty variant: the upload is skipped only when both credentials are missing
CredentialsMissingBoth(account, key) == account \in {NotSet, ""} /\ key \in {NotSet, ""}

\* not account_name or not account_key
CredentialsMissing(account, key) == account \in {NotSet, ""} \/ key \in {NotSet, ""}

\* upload_results_to_azure(): the blobs uploaded, what is printed and the
\* exception that leaves it; uploads files are found to upload, and upload
\* number failAt raises (0: none does)
upload_results_to_azure(account, key, uploads, failAt) ==
    IF CredentialsMissing(account, key)
    THEN [blobs |-> 0, diag |-> <<"Azure Storage credentials not found, skipping upload">>,
          raised |-> ""]
    ELSE IF failAt # 0
    THEN [blobs |-> failAt - 1, diag |-> <<"Failed to upload results to Azure">>, raised |-> ""]
    ELSE [blobs |-> uploads, diag |-> <<"Test results uploaded to Azure Storage">>,
          raised |-> ""]

\* pytest_sessionfinish(session, exitstatus)
pytest_sessionfinish(r, uploads, failAt) ==
    IF azure_upload_enabled(r.flag, r.upload)
    THEN upload_results_to_azure(r.account, r.key, uploads, failAt)
    ELSE [blobs |-> 0, diag |-> <<>>, raised |-> ""]

\* the end of the session; allure files lie under reports/allure-results,
\* images and others files under screenshots
SessionFinish ==
    /\ run.phase = "finish"
    /\ \E allure \in 0..MaxFiles, images \in 0..MaxFiles, others \in 0..1,
          failAt \in 0..MaxFiles :
        /\ allure + images + others <= MaxFiles
        /\ failAt <= allure + images
        /\ LET f == pytest_sessionfinish(run, allure + images, failAt) IN
           run' = IF run.conf = "conftest_azure"
                  THEN [run EXCEPT !.blobs = f.blobs, !.diag = f.diag, !.raised = f.raised,
                                   !.phase = "done"]
                  ELSE [run EXCEPT !.phase = "done"]
    /\ UNCHANGED <<alive, status, value, wait, last, file, pages>>

\* a run started with either conftest, some command line and environment
InitRun ==
    /\ alive = TRUE
    /\ status = [n \in Nodes |-> "ready"]
    /\ value = <<>>
    /\ wait = Idle
    /\ last = NoCall
    /\ file = ShippedFile
    /\ pages = <<>>
    /\ run \in {RunOf(conf, option, flag, upload, account, key) :
                  conf \in Conftests, option \in BrowserOptions, flag \in BOOLEAN,
                  upload \in UploadValues, account \in Credentials, key \in Credentials}

NextRun ==
    \/ BrowserSetup
    \/ TestBody
    \/ BrowserTeardown
    \/ SessionFinish

\* the runner does not stop between the steps of a run
SpecRun == InitRun /\ [][NextRun]_vars /\ WF_vars(NextRun)

(***************************************************************************)
(* Properties.  last is the call that returned in the step just taken, so  *)
(* the session and the document are, in that state, as the call left them. *)
(***************************************************************************)
ResolverOps ==
    {"get_page_element", "get_page_elements", "click_element", "enter_keys_to_element"}
    \cup WaitNames

\* the strategy the fixed table gives each kind of the locator file format
StrategyOfKind(kind) ==
    CASE kind = "id" -> "id"
      [] kind = "xpath" -> "xpath"
      [] kind = "css" -> "css selector"
      [] kind = "name" -> "name"
      [] kind = "class" -> "class name"
      [] kind = "link_text" -> "link text"
      [] kind = "partial_link_text" -> "partial link text"
      [] kind = "tag_name" -> "tag name"

\* a dict with both keys
IsDescriptor(x) == x.py = "dict" /\ x.has = {"type", "value"}
Recognized(x) == IsDescriptor(x) /\ x.type \in Kinds
Unrecognized(x) == IsDescriptor(x) /\ x.type \notin Kinds

\* the live nodes a recognized descriptor matches
MatchedBy(x) == IF alive THEN Matches(StrategyOfKind(x.type), x.value) ELSE {}

LookedUp == \E i \in DOMAIN last.calls : last.calls[i].call \in {"find_element", "find_elements"}
Clicked == \E i \in DOMAIN last.calls : last.calls[i].call = "click"

\* C1: no operation of the resolver raises, whatever the locator argument
\* (well-formed, of an unknown kind, empty, not a dict, a dict without 'type' or
\* 'value') and whatever the session does: every call returns to its caller.
C1_NeverRaises == last.name \in ResolverOps => last.exc = ""

\* C2: for every descriptor whose kind is outside the eight recognized kinds,
\* get_page_element returns None without raising and without a lookup on the
\* session, and prints a diagnostic that names the descriptor's kind and value.
C2_UnknownKindIsAbsent ==
    (last.name = "get_page_element" /\ Unrecognized(last.arg)) =>
        /\ last.exc = ""
        /\ last.ret = PyNone
        /\ ~LookedUp
        /\ \E i \in DOMAIN last.diag :
              last.diag[i].type = last.arg.type /\ last.diag[i].value = last.arg.value

C2_Witness ==
    /\ last.name = "get_page_element"
    /\ Unrecognized(last.arg)
    /\ last.arg.value = "sb_form_q"
    /\ status[1] = "ready"
    /\ last.ret = PyNone

\* C3: for every descriptor of a recognized kind that matches no live node,
\* get_page_element returns None and get_page_elements returns an empty list;
\* get_page_elements returns an empty list for every descriptor of an unknown
\* kind too.
C3_NoMatchIsAbsent ==
    /\ (last.name = "get_page_element" /\ Recognized(last.arg) /\ MatchedBy(last.arg) = {}) =>
           last.exc = "" /\ last.ret = PyNone
    /\ (last.name = "get_page_elements" /\ Recognized(last.arg) /\ MatchedBy(last.arg) = {}) =>
           last.exc = "" /\ last.ret = PyList(<<>>)
    /\ (last.name = "get_page_elements" /\ Unrecognized(last.arg)) =>
           last.exc = "" /\ last.ret = PyList(<<>>)

C3_Witness ==
    /\ last.name = "get_page_elements"
    /\ Recognized(last.arg)
    /\ alive
    /\ \E n \in Nodes : status[n] # "absent"
    /\ MatchedBy(last.arg) = {}
    /\ last.ret = PyList(<<>>)
    /\ LookedUp

\* C4: for every descriptor of a recognized kind whose value matches at least
\* one node of the live document, get_page_element returns a handle to a node
\* matched by that value under the strategy the table gives the kind.
C4_ResolvesToMatch ==
    (last.name = "get_page_element" /\ Recognized(last.arg) /\ MatchedBy(last.arg) # {}) =>
        /\ last.exc = ""
        /\ last.ret.py = "WebElement"
        /\ last.ret.node \in MatchedBy(last.arg)

C4_Witness ==
    /\ last.name = "get_page_element"
    /\ last.arg = Descriptor("id", "sb_form_q")
    /\ last.ret = WebElement(1)

\* the descriptor resolves to None: get_page_element returns None for it here
ResolvesToAbsent(x) ==
    IsDict(x) /\ get_page_element(x).exc = "" /\ get_page_element(x).ret = PyNone

\* C5: click_element with a descriptor that resolves to None dispatches no
\* click to the document, lets no exception out, and prints a diagnostic that
\* names the descriptor.
C5_ClickOnAbsent ==
    (last.name = "click_element" /\ ResolvesToAbsent(last.arg)) =>
        /\ last.exc = ""
        /\ ~Clicked
        /\ \E i \in DOMAIN last.diag : last.diag[i].loc = last.arg

C5_Witness ==
    /\ last.name = "click_element"
    /\ last.arg = Descriptor("id", "sb_form_q")
    /\ alive
    /\ status[1] = "absent"
    /\ ~Clicked
    /\ LookedUp

\* the session raised while the keys were typed or the value was read
RaisedWhileTyping ==
    \E i \in DOMAIN last.calls :
        last.calls[i].call \in {"send_keys", "get_attribute"} /\ last.calls[i].exc # ""

TypedInto(n) ==
    \E i \in DOMAIN last.calls :
        /\ last.calls[i].call = "send_keys"
        /\ last.calls[i].node = n
        /\ last.calls[i].exc = ""

\* the node enter_keys_to_element was to type into: the one of the element
\* given, or the first one the descriptor given matches; 0 when there is none
TargetOf(x) ==
    IF x.py = "WebElement" THEN x.node
    ELSE IF Recognized(x) /\ MatchedBy(x) # {} THEN Min(MatchedBy(x))
    ELSE 0

\* C6: enter_keys_to_element, given a descriptor or an element, sends the
\* text to the node and returns the node's value attribute as it is after the
\* input; whenever resolution fails or the session raises while typing or
\* reading, it returns None and prints a diagnostic.  It never raises.
C6_SendKeysReturnsValue ==
    last.name = "enter_keys_to_element" =>
        /\ last.exc = ""
        /\ (TargetOf(last.arg) = 0 \/ RaisedWhileTyping) =>
               last.ret = PyNone /\ last.diag # <<>>
        /\ (TargetOf(last.arg) # 0 /\ ~RaisedWhileTyping) =>
               /\ TypedInto(TargetOf(last.arg))
               /\ last.ret = PyStr(value)

C6_Witness ==
    /\ last.name = "enter_keys_to_element"
    /\ last.arg = Descriptor("name", "q")
    /\ last.keys = <<"a">>
    /\ last.ret = PyStr(<<"a">>)

\* C7 as stated: for every resolved text input, whatever it held before, and
\* every text, the value enter_keys_to_element reads back is exactly the text
\* sent.
C7_RoundTrip ==
    (last.name = "enter_keys_to_element" /\ last.ret.py = "str") => last.ret.chars = last.keys

\* C7 as the code has it: the value read back is what the input held before the
\* call followed by the text sent, so it is exactly the text sent when the
\* input was empty before the call.
C7_AppendsToPrior ==
    (last.name = "enter_keys_to_element" /\ last.ret.py = "str") =>
        /\ last.ret.chars = last.prior \o last.keys
        /\ last.prior = <<>> => last.ret.chars = last.keys

C7_Witness ==
    /\ last.name = "enter_keys_to_element"
    /\ last.prior = <<"a">>
    /\ last.keys = <<"b">>
    /\ last.ret = PyStr(<<"a", "b">>)

\* C8: the waits honour the timeout given to the call: a wait ends no later
\* than that timeout (the sleep it was in when the time ran out aside), and
\* with timeout 0 on a node that is not visible wait_for_element_visible
\* returns None after at most one check of the condition.
C8_TimeoutHonoured ==
    (last.name \in WaitNames /\ last.polls > 0) =>
        /\ last.elapsed <= last.timeout + PollInterval
        /\ (last.name = "wait_for_element_visible" /\ last.timeout = 0 /\ last.ret = PyNone) =>
               last.polls <= 1

\* the readiness a wait is for: interactable (displayed and enabled), visible
ReadyFor(name, n) ==
    IF name = "wait_for_element_to_be_clickable"
    THEN status[n] = "ready"
    ELSE status[n] # "hidden" /\ status[n] # "absent"

\* C9: a wait that came to check its condition returns the matching node once
\* the node is interactable (wait_for_element_to_be_clickable) or visible
\* (wait_for_element_visible); a wait that ends without that returns None with
\* a diagnostic; it never raises.
C9_WaitReturnsReadyNode ==
    (last.name \in WaitNames /\ last.polls > 0) =>
        /\ last.exc = ""
        /\ IF MatchedBy(last.arg) # {} /\ ReadyFor(last.name, Min(MatchedBy(last.arg)))
           THEN last.ret = WebElement(Min(MatchedBy(last.arg)))
           ELSE last.ret = PyNone /\ last.diag # <<>>

C9_Witness ==
    /\ last.name = "wait_for_element_to_be_clickable"
    /\ last.polls >= 2
    /\ last.ret = WebElement(1)

\* the store is a mapping of names to dicts with 'type' and 'value'
WellFormedStore(l) ==
    /\ l.py = "dict"
    /\ \A n \in Names : l.map[n] = Missing \/ IsDescriptor(l.map[n])

Unreadable(f) == f.kind \in {"absent", "not yaml"}

\* C10 as stated: no SearchPage is constructed with a missing or malformed
\* locator store, a file that does not parse to a mapping of names to
\* descriptors included.
C10_NoMalformedStore ==
    \A i \in DOMAIN pages : pages[i].constructed => WellFormedStore(pages[i].page_locators)

\* C10 as the code has it: loading fails when the file is absent or is not
\* YAML, and then no SearchPage is constructed; whatever the file parses to
\* otherwise becomes the page's store and the construction completes.
C10_LoadErrorIsFatal ==
    last.name = "SearchPage" =>
        LET p == pages[Len(pages)] IN
        /\ last.exc = p.exc
        /\ Unreadable(file) => p.exc # "" /\ ~p.constructed /\ p.page_locators = Unset
        /\ ~Unreadable(file) => p.exc = "" /\ p.constructed /\ p.page_locators = Loaded(file)

C10_Witness ==
    /\ last.name = "SearchPage"
    /\ file.kind = "not yaml"
    /\ Len(pages) = 2
    /\ pages[1].constructed
    /\ ~pages[2].constructed

\* the strategy the call that returned looked up with; none when it made no
\* lookup
UsedStrategy == IF last.calls = <<>> THEN NoStrategy ELSE last.calls[1].by

\* C19: the dispatch from kind to strategy is the same everywhere: whatever
\* strategy get_page_element (its if/elif chain), get_page_elements (its own
\* chain) or a wait (the table of _get_by_type) uses for a kind, the other two
\* select for that kind too, and where one selects none the others select none.
C19_SameDispatch ==
    /\ (last.name = "get_page_element" /\ IsDescriptor(last.arg)) =>
           /\ UsedStrategy = FindByMany(last.arg.type)
           /\ UsedStrategy = _get_by_type(last.arg.type)
    /\ (last.name = "get_page_elements" /\ IsDescriptor(last.arg)) =>
           /\ UsedStrategy = FindByOne(last.arg.type)
           /\ UsedStrategy = _get_by_type(last.arg.type)
    /\ wait.pc = "polling" =>
           /\ wait.by # NoStrategy
           /\ wait.by = FindByOne(wait.locator.type)
           /\ wait.by = FindByMany(wait.locator.type)
    /\ (last.name \in WaitNames /\ IsDescriptor(last.arg) /\ last.polls = 0) =>
           /\ FindByOne(last.arg.type) = NoStrategy
           /\ FindByMany(last.arg.type) = NoStrategy

C19_Witness ==
    /\ wait.pc = "polling"
    /\ wait.locator.type = "partial_link_text"
    /\ wait.by = "partial link text"
    /\ wait.polls = 1

\* C20: every operation of the resolver that gives None for a descriptor it
\* could not resolve (no matching node, unknown kind) prints a diagnostic; the
\* two waits do so when they return None for a descriptor of an unknown kind.
C20_AbsentHasDiagnostic ==
    (/\ last.name \in {"get_page_element"} \cup WaitNames
     /\ IsDescriptor(last.arg)
     /\ last.exc = ""
     /\ last.ret = PyNone) => last.diag # <<>>

(***************************************************************************)
(* Properties of the search page object.  last.page is the page object the *)
(* call was made on.                                                       *)
(***************************************************************************)
TypingOps == {"search_for_stock", "clear_and_search_stock", "clear_search_box"}

\* the element the locator under name yields on the document as it is, None
\* when there is no such locator or it matches no node
ElementUnder(store, name) ==
    IF HasEntry(store, name) /\ Recognized(store.map[name]) /\ MatchedBy(store.map[name]) # {}
    THEN WebElement(Min(MatchedBy(store.map[name])))
    ELSE PyNone

\* C13: check_search_element returns the element of 'search-box' when that
\* locator yields one; when it yields none (the locator is missing, or is
\* there and matches no node) it returns the element of 'search-input'; it
\* returns False only when neither locator yields an element; it never raises.
C13_FallsBackToSearchInput ==
    last.name = "check_search_element" =>
        /\ last.exc = ""
        /\ last.ret =
             IF ElementUnder(pages[last.page].page_locators, "search-box") # PyNone
             THEN ElementUnder(pages[last.page].page_locators, "search-box")
             ELSE IF ElementUnder(pages[last.page].page_locators, "search-input") # PyNone
             THEN ElementUnder(pages[last.page].page_locators, "search-input")
             ELSE PyBool(FALSE)

\* the statements of each typing operation
Statements(name) ==
    CASE name = "search_for_stock" -> 3
      [] name = "clear_and_search_stock" -> 5
      [] name = "clear_search_box" -> 1

\* the calls on the search element that completed
Completed ==
    {k \in DOMAIN last.calls :
        last.calls[k].call \in {"clear", "send_keys"} /\ last.calls[k].exc = ""}

\* the lookup that found the search element
FoundSearchElement ==
    \E k \in DOMAIN last.calls :
        last.calls[k].call = "find_element" /\ last.calls[k].exc = ""

\* C14: search_for_stock, clear_and_search_stock and clear_search_box never
\* raise and return a boolean; they return True exactly when the search
\* element was found and every statement on it (clear, typing, Enter)
\* completed, and then the input holds the text typed (nothing, for
\* clear_search_box); they return False otherwise.
C14_TrueIffTyped ==
    last.name \in TypingOps =>
        /\ last.exc = ""
        /\ last.ret \in {PyBool(TRUE), PyBool(FALSE)}
        /\ last.ret = PyBool(TRUE) <=>
               (FoundSearchElement /\ Cardinality(Completed) = Statements(last.name))
        /\ last.ret = PyBool(TRUE) => value = last.keys

C14_Witness ==
    /\ last.name = "clear_and_search_stock"
    /\ last.prior = <<"b">>
    /\ last.keys = <<"a", "b">>
    /\ last.ret = PyBool(TRUE)
    /\ value = <<"a", "b">>

\* the locator a waiting operation of the page object looks up
LocatorOf(name) == pages[last.page].page_locators.map[LocatorName(name)]

\* C15: wait_for_search_suggestions(timeout) never raises and returns a
\* boolean no later than timeout seconds after the call: True when the
\* element of 'search-suggestions' is there by then, False when it is not,
\* when the locator is absent or when the session raises.
C15_WaitsAtMostTimeout ==
    last.name = "wait_for_search_suggestions" =>
        /\ last.exc = ""
        /\ last.ret \in {PyBool(TRUE), PyBool(FALSE)}
        /\ last.elapsed <= last.timeout
        /\ ~HasEntry(pages[last.page].page_locators, "search-suggestions") =>
               last.ret = PyBool(FALSE)
        /\ ~alive => last.ret = PyBool(FALSE)

\* C16: get_search_results never raises and returns a list: the elements the
\* 'search-results' locator matches on the document as it is at the return,
\* in document order; the empty list when the locator is missing, when it
\* matched nothing until the wait elapsed, or when the session raises.
C16_ReturnsMatchedElements ==
    last.name = "get_search_results" =>
        /\ last.exc = ""
        /\ last.ret.py = "list"
        /\ ~HasEntry(pages[last.page].page_locators, "search-results") =>
               last.ret = PyList(<<>>)
        /\ (/\ HasEntry(pages[last.page].page_locators, "search-results")
            /\ Recognized(LocatorOf(last.name))) =>
               last.ret = PyList(InOrder(MatchedBy(LocatorOf(last.name))))

PageOps ==
    TypingOps \cup PageWaitNames
    \cup {"check_search_element", "verify_stock_information_displayed"}

\* C11: the locator store is read-only after it is loaded: no step, whether
\* an operation of a page object, an operation of the resolver or an edit of
\* the locator file, changes the page_locators of a page object that exists;
\* a page object that is constructed gets the mapping loaded from the file as
\* it is at that moment, and the others keep theirs.
C11_StoreReadOnly ==
    [][/\ \A i \in DOMAIN pages : i \in DOMAIN pages' /\ pages'[i] = pages[i]
       /\ Len(pages') # Len(pages) =>
              /\ Len(pages') = Len(pages) + 1
              /\ pages'[Len(pages')] = SearchPage(file)]_vars

\* two page objects with different mappings, the first used after the file
\* it was loaded from was replaced and the second was constructed
C11_Witness ==
    /\ Len(pages) = 2
    /\ pages[1].page_locators # pages[2].page_locators
    /\ pages[1].page_locators # Loaded(file)
    /\ last.name \in PageOps
    /\ last.page = 1
    /\ last.ret = PyBool(TRUE)

(***************************************************************************)
(* Properties of the test run.                                             *)
(***************************************************************************)
Tests == 1..MaxTests

\* --browser names chrome or firefox, in any case
SupportedBrowser == run.option \in {"chrome", "Chrome", "firefox"}

\* the driver sessions created for test t
SessionsOf(t) == {d \in DOMAIN run.sessions : run.sessions[d].test = t}

InBody(t) == run.test = t /\ run.phase = "call"
BodyRan(t) == run.results[t].outcome # ""
SetUp(t) == run.results[t].setup # ""
\* test t asks for the browser fixture
Wants(t) == run.results[t].wants

\* the session given to test t was quit
SessionQuit(t) ==
    /\ run.results[t].driver \in DOMAIN run.sessions
    /\ ~run.sessions[run.results[t].driver].open

\* what holds of the sessions in every state of a run
OwnSession ==
    /\ \A t \in Tests : (Wants(t) /\ (InBody(t) \/ BodyRan(t))) =>
           /\ SupportedBrowser
           /\ Cardinality(SessionsOf(t)) = 1
           /\ run.results[t].driver \in SessionsOf(t)
    /\ \A t \in Tests : ~Wants(t) => SessionsOf(t) = {}
    /\ \A t \in Tests : (Wants(t) /\ InBody(t)) => run.sessions[run.results[t].driver].open
    /\ \A t \in Tests : BodyRan(t) => run.results[t].uses = run.results[t].driver
    /\ \A t, u \in Tests : (t # u /\ Wants(t) /\ Wants(u) /\ BodyRan(t) /\ BodyRan(u)) =>
           run.results[t].uses # run.results[u].uses
    /\ \A d \in DOMAIN run.sessions : run.sessions[d].open => run.sessions[d].test = run.test

\* C12: one session per test.  With chrome or firefox, exactly one driver
\* session has been created for a test that asks for the browser when its
\* body runs, the body uses that session and no other test's body does, only
\* the session of the test under way is open, and once the body has finished,
\* passed or failed, quit is eventually called on that session.
C12_OneSessionPerTest ==
    /\ []OwnSession
    /\ \A t \in Tests : (Wants(t) /\ BodyRan(t)) ~> SessionQuit(t)

C12_Witness ==
    /\ run.phase = "finish"
    /\ Wants(1) /\ Wants(2)
    /\ run.results[1].outcome = "failed"
    /\ run.results[2].outcome = "passed"
    /\ run.results[1].driver # run.results[2].driver
    /\ SessionQuit(1)
    /\ SessionQuit(2)

\* C17: with a --browser other than chrome and firefox, the setup of every
\* test that asks for the browser fails with the 'Unsupported browser type'
\* error, no driver session is ever created and the body of no such test runs.
C17_UnsupportedBrowserRejected ==
    ~SupportedBrowser =>
        /\ run.sessions = <<>>
        /\ \A t \in Tests : Wants(t) => ~BodyRan(t)
        /\ \A t \in Tests : (Wants(t) /\ SetUp(t)) =>
               run.results[t].setup = "ValueError: Unsupported browser type"

\* upload is enabled: --azure-upload, or AZURE_UPLOAD is 'true' in any case
UploadEnabled == run.flag \/ run.upload \in {"true", "TRUE"}

\* both AZURE_STORAGE_ACCOUNT and AZURE_STORAGE_KEY are set
CredentialsSet == run.account # NotSet /\ run.key # NotSet

\* C18: blobs are uploaded only once the session has ended (every test is
\* over and every driver session quit), and only when upload is enabled and
\* both credentials are set; otherwise no blob is uploaded.  No exception
\* leaves the session finish, also when an upload fails.
C18_UploadOnlyWhenEnabled ==
    /\ run.blobs > 0 =>
           /\ run.phase = "done"
           /\ \A d \in DOMAIN run.sessions : ~run.sessions[d].open
           /\ UploadEnabled
           /\ CredentialsSet
    /\ (run.phase = "done" /\ ~(UploadEnabled /\ CredentialsSet)) => run.blobs = 0
    /\ run.raised = ""

\* one blob went up before an upload failed, upload enabled by AZURE_UPLOAD=TRUE
C18_Witness ==
    /\ run.phase = "done"
    /\ ~run.flag
    /\ run.upload = "TRUE"
    /\ run.diag = <<"Failed to upload results to Azure">>
    /\ run.blobs = 1

(***************************************************************************)
(* Order of the events a search sends to the search element.               *)
(***************************************************************************)
SearchOps == {"search_for_stock", "clear_and_search_stock"}

\* the places of last.calls that are calls on the search element
Events == {k \in DOMAIN last.calls : last.calls[k].call \in {"clear", "send_keys"}}

IsClear(k) == last.calls[k].call = "clear"
IsSymbol(k) == last.calls[k].call = "send_keys" /\ last.calls[k].keys = last.keys
IsEnter(k) == last.calls[k].call = "send_keys" /\ last.calls[k].keys = ENTER

\* C21: in search_for_stock and clear_and_search_stock the clear of the
\* existing text precedes the typing of the stock symbol, the Enter key is the
\* last event sent and is sent right after the symbol only, the symbol and
\* Enter are sent at most once, and an event that raises is the last one sent.
C21_EventsInOrder ==
    last.name \in SearchOps =>
        /\ \A k \in Events : IsSymbol(k) => \E j \in Events : j < k /\ IsClear(j)
        /\ \A k \in Events : IsEnter(k) =>
               /\ \A j \in Events : j <= k
               /\ k - 1 \in Events /\ IsSymbol(k - 1)
        /\ \A j, k \in Events : (IsSymbol(j) /\ IsSymbol(k)) => j = k
        /\ \A k \in Events : last.calls[k].exc # "" => \A j \in Events : j <= k
        /\ last.ret = PyBool(TRUE) => \E k \in Events : IsEnter(k)

\* the input was cleared, typing the symbol raised and Enter was not sent
C21_Witness ==
    /\ last.name = "search_for_stock"
    /\ last.keys = <<"a", "b">>
    /\ \E k \in Events :
        /\ IsSymbol(k)
        /\ last.calls[k].exc = "WebDriverException"
        /\ k - 1 \in Events /\ IsClear(k - 1) /\ last.calls[k - 1].exc = ""
        /\ k = Len(last.calls)
    /\ last.ret = PyBool(FALSE)

(***************************************************************************)
(* Properties of the reports.                                              *)
(***************************************************************************)
\* the report of phase when of test t, as it is after the hooks
ReportsOf(t, when) ==
    {k \in DOMAIN run.results[t].reports : run.results[t].reports[k].when = when}

\* C22: with conftest_azure.py, once the call phase of a test was reported,
\* the environment information (environment, browser, headless,
\* azure_enabled, timestamp) is attached to that test's report.
C22_EnvironmentAttached ==
    run.conf = "conftest_azure" =>
        \A t \in Tests : ReportsOf(t, "call") # {} => run.results[t].env

\* C23: a failure screenshot is captured (attached, or its exception caught)
\* only at the report of the call phase of a test that failed and that has a
\* browser session; no exception leaves the hook, and every report says
\* failed exactly when the phase failed: the call phase when the body failed,
\* the setup when the fixture raised, the teardown never.
C23_ScreenshotOnlyOnFailedCall ==
    \A t \in Tests :
        /\ run.results[t].shot # "" =>
               /\ run.results[t].shotAt = "call"
               /\ run.results[t].outcome = "failed"
               /\ run.results[t].driver \in SessionsOf(t)
        /\ \A k \in DOMAIN run.results[t].reports :
               /\ run.results[t].reports[k].exc = ""
               /\ run.results[t].reports[k].failed <=>
                      \/ /\ run.results[t].reports[k].when = "call"
                         /\ run.results[t].outcome = "failed"
                      \/ /\ run.results[t].reports[k].when = "setup"
                         /\ run.results[t].setup # "ok"

\* the capture raised for the failed test 1 and was caught; test 2, which has
\* no browser session, failed as well and got no screenshot
C23_Witness ==
    /\ run.results[1].shot = "caught"
    /\ run.results[1].outcome = "failed"
    /\ ReportsOf(1, "teardown") # {}
    /\ ~Wants(2)
    /\ run.results[2].outcome = "failed"
    /\ run.results[2].shot = ""
    /\ ReportsOf(2, "teardown") # {}

====
